---- MODULE Spec2Model ----
(***************************************************************************)
(* Model of MVFitter, the multi-view joint fitter of                       *)
(* RGB_Fitting/model/mv_uvtex_wspace_shape_joint_fitter.py.                *)
(*                                                                         *)
(* Three specifications share the variables below:                         *)
(*   SpecInit     MVFitter.__init__ run statement by statement             *)
(*   SpecLoss     MVFitter.compute_losses over every weight combination    *)
(*   SpecIterate  MVFitter.iterate on an object whose attributes exist     *)
(*                                                                         *)
(* Tensor arithmetic of the collaborators (face model, renderer, networks, *)
(* Adam) is outside the model; the model keeps the control flow, the       *)
(* offsets, the registries and the scalar bookkeeping of the class.        *)
(* Floats are fixed point: One stands for 1.0.                             *)
(***************************************************************************)
EXTENDS Integers, Sequences, FiniteSets, TLC

VARIABLES
    pc,                 \* position in the method being run
    err,                \* exception raised, "none" while running
    \* ---- configuration (kwargs, lines 35-49)
    w,                  \* term name -> weight (w_feat, ..., w_lm)
    total_step,
    print_freq,
    visual_freq,
    lr_rampdown_length, \* <<numerator, denominator>>
    \* ---- constructor inputs
    num_bundles,        \* len(input_datas)
    init_coeffs,        \* per view: the dict facemodel.split_coeff returns
    \* ---- constructor state
    num_imgs,
    coeffs_opt,         \* packed tensor, column -> [n, d] (the value n/d)
    cur_pos,
    view_i,             \* loop variable i of the packing loop
    writes,             \* column -> number of slice assignments it received
    opt_setting_dict_list,
    initial_lr_list,
    \* ---- optimisation state
    now_step,
    loop_k,             \* iterations of `for _ in range(total_step)` started
    param_lr,           \* optimizer.param_groups[i]['lr']
    lr_ramp,
    sched_step,         \* now_step read by the last update_learning_rate
    loss_names,
    loss_all,
    loss_attr,          \* the attributes self.loss_<name> that are set
    gt_lm,              \* y coordinates of the stored ground-truth landmarks
    pred_lm,            \* y coordinates of the predicted landmarks
    shares_memory,      \* .detach().cpu().numpy() aliases the tensor (CPU run)
    \* ---- observation of the run
    trace,              \* phases executed in the current iteration
    n_opt_steps,        \* optimizer.step() calls
    n_finalize,         \* executions of lines 262-265
    log_steps,          \* now_step of every scalar log written
    vis_steps,          \* now_step of every visual snapshot written
    ramp_hist,          \* lr_ramp of every update_learning_rate call
    loss_hist,          \* loss_all of every compute_losses call
    gt_lm_init          \* gt_lm as it was at construction

cfg_vars  == <<w, total_step, print_freq, visual_freq, lr_rampdown_length>>
init_vars == <<num_bundles, init_coeffs, num_imgs, coeffs_opt, cur_pos, view_i,
               writes, opt_setting_dict_list, initial_lr_list>>
opt_vars  == <<now_step, loop_k, param_lr, lr_ramp, sched_step, loss_names,
               loss_all, loss_attr, gt_lm, pred_lm, shares_memory>>
obs_vars  == <<trace, n_opt_steps, n_finalize, log_steps, vis_steps, ramp_hist,
               loss_hist, gt_lm_init>>
vars == <<pc, err, cfg_vars, init_vars, opt_vars, obs_vars>>

----------------------------------------------------------------------------
(* Bounds of the model *)

MaxViews == 2
MaxTotalStep == 4
MaxFreq == 3
MaxWeight == 1
MaxSeed == 1

----------------------------------------------------------------------------
(* Layout of the packed coefficient tensor, lines 68-81 *)

IdDim == 532
ExpDim == 45
AngleDim == 3
GammaDim == 27
TransDim == 3

Blocks == <<"id", "exp", "angle", "gamma", "trans">>

BlockDim(b) ==
    CASE b = "id" -> IdDim
      [] b = "exp" -> ExpDim
      [] b = "angle" -> AngleDim
      [] b = "gamma" -> GammaDim
      [] b = "trans" -> TransDim

TensorWidthNoTrans(n) == IdDim + n * (ExpDim + AngleDim + GammaDim)

\* width of the tensor allocated for n views, line 68
TensorWidth(n) == IdDim + n * (ExpDim + AngleDim + GammaDim + TransDim)

Zero == [n |-> 0, d |-> 1]

Zeros(width) == [c \in 0 .. width - 1 |-> Zero]

\* t.shape[1]
Width(t) == Cardinality(DOMAIN t)

\* torch broadcasting of a [1, have] value into a [1, want] slice
Broadcastable(have, want) == have = want \/ have = 1

\* element of a [1, have] value that lands on position k (0-based) of the slice
Elem(v, k) == IF Len(v) = 1 THEN v[1] ELSE v[k + 1]

\* t[:, lo:lo+n] = v
SliceAssign(t, lo, n, v) ==
    [c \in DOMAIN t |->
        IF c >= lo /\ c < lo + n THEN [n |-> Elem(v, c - lo), d |-> 1] ELSE t[c]]

SliceAddOverwrite(t, n, v) ==
    [c \in DOMAIN t |-> IF c < n THEN [n |-> Elem(v, c), d |-> t[c].d] ELSE t[c]]

\* t[:, :n] += v
SliceAdd(t, n, v) ==
    [c \in DOMAIN t |->
        IF c < n THEN [n |-> t[c].n + Elem(v, c) * t[c].d, d |-> t[c].d] ELSE t[c]]

\* t[:, :n] /= k
SliceDiv(t, n, k) ==
    [c \in DOMAIN t |-> IF c < n THEN [n |-> t[c].n, d |-> t[c].d * k] ELSE t[c]]

Touch(wr, lo, n) ==
    [c \in DOMAIN wr |-> IF c >= lo /\ c < lo + n THEN wr[c] + 1 ELSE wr[c]]

----------------------------------------------------------------------------
(* Inputs of the constructor *)

Terms == {"feat", "color", "vgg", "reg_id", "reg_exp", "reg_gamma", "reg_latent", "lm"}

NoWeights == [t \in Terms |-> 0]

\* value k of sub-block b of view i in the caller's coefficients
Val(i, b, k) ==
    LET bi == CHOOSE j \in 1 .. Len(Blocks) : Blocks[j] = b
    IN  1 + ((5 * i + 3 * bi + k) % 7)

\* the decoded dict of view i; `bad` names at most one sub-block of one view
\* whose width is not the layout's
DecodedDict(i, bad) ==
    [b \in {Blocks[j] : j \in 1 .. Len(Blocks)} |->
        LET width == IF bad.view = i /\ bad.block = b THEN bad.width ELSE BlockDim(b)
        IN  [k \in 1 .. width |-> Val(i, b, k)]]

NoBad == [view |-> -1, block |-> "none", width |-> 0]

BadChoices(n) ==
    {NoBad} \cup
    {[view |-> i, block |-> Blocks[j], width |-> wd] :
        i \in 0 .. n - 1, j \in 1 .. Len(Blocks), wd \in {1, 2}}

\* the configurations the constructor is run with: the defaults of lines
\* 35-49 and one malformed value at a time
DefaultCfg ==
    [w |-> [NoWeights EXCEPT !["lm"] = 1], total_step |-> 100, print_freq |-> 10,
     visual_freq |-> 10, lr_rampdown_length |-> <<1, 4>>]

InitCfgs ==
    {DefaultCfg,
     [DefaultCfg EXCEPT !.total_step = 0],
     [DefaultCfg EXCEPT !.total_step = -1],
     [DefaultCfg EXCEPT !.print_freq = 0],
     [DefaultCfg EXCEPT !.visual_freq = -1],
     [DefaultCfg EXCEPT !.lr_rampdown_length = <<0, 1>>],
     [DefaultCfg EXCEPT !.w = [NoWeights EXCEPT !["lm"] = -1]]}

Malformed ==
    \/ total_step <= 0
    \/ print_freq <= 0
    \/ visual_freq <= 0
    \/ lr_rampdown_length[1] = 0
    \/ \E t \in Terms : w[t] < 0

----------------------------------------------------------------------------
(* State shared by the specifications before a method touches it *)

IdleOpt ==
    /\ now_step = 0
    /\ loop_k = 0
    /\ param_lr = <<>>
    /\ lr_ramp = 0
    /\ sched_step = 0
    /\ loss_names = <<>>
    /\ loss_all = 0
    /\ loss_attr = <<>>
    /\ gt_lm = <<>>
    /\ pred_lm = <<>>
    /\ shares_memory = FALSE

IdleObs ==
    /\ trace = <<>>
    /\ n_opt_steps = 0
    /\ n_finalize = 0
    /\ log_steps = <<>>
    /\ vis_steps = <<>>
    /\ ramp_hist = <<>>
    /\ loss_hist = <<>>
    /\ gt_lm_init = <<>>

IdleInit ==
    /\ num_bundles = 0
    /\ init_coeffs = <<>>
    /\ num_imgs = 0
    /\ coeffs_opt = <<>>
    /\ cur_pos = 0
    /\ view_i = 0
    /\ writes = <<>>
    /\ opt_setting_dict_list = <<>>
    /\ initial_lr_list = <<>>

----------------------------------------------------------------------------
(* MVFitter.__init__ *)

\* default learning rates of lines 43-45, in units of 1e-6 and of 1e-2
InitialLr == 10000
TexLrScalePct == 5
PoseLrScalePct == 5

TexLr == (InitialLr * TexLrScalePct) \div 100
PoseLr == (InitialLr * PoseLrScalePct) \div 100

InitCtor ==
    /\ pc = "args"
    /\ err = "none"
    /\ \E c \in InitCfgs :
        /\ w = c.w
        /\ total_step = c.total_step
        /\ print_freq = c.print_freq
        /\ visual_freq = c.visual_freq
        /\ lr_rampdown_length = c.lr_rampdown_length
    /\ num_bundles \in 0 .. MaxViews + 1
    /\ \E n \in 0 .. MaxViews :
        \E bad \in BadChoices(n) :
            init_coeffs = [j \in 1 .. n |-> DecodedDict(j - 1, bad)]
    /\ num_imgs = 0
    /\ coeffs_opt = <<>>
    /\ cur_pos = 0
    /\ view_i = 0
    /\ writes = <<>>
    /\ opt_setting_dict_list = <<>>
    /\ initial_lr_list = <<>>
    /\ IdleOpt
    /\ IdleObs

Raise(e) ==
    /\ pc' = "failed"
    /\ err' = e

\* lines 35-58: kwargs are stored unchecked; input_datas[i] is indexed for
\* every i < len(init_coeffs)
ReadArgs ==
    /\ pc = "args"
    /\ num_imgs' = Len(init_coeffs)
    /\ IF num_bundles < Len(init_coeffs)
       THEN Raise("IndexError")
       ELSE pc' = "alloc" /\ err' = err
    /\ UNCHANGED <<cfg_vars, num_bundles, init_coeffs, coeffs_opt, cur_pos, view_i,
                   writes, opt_setting_dict_list, initial_lr_list, opt_vars, obs_vars>>

\* lines 68-69 (init_coeffs[0].device needs a first view)
Alloc ==
    /\ pc = "alloc"
    /\ IF num_imgs = 0
       THEN /\ Raise("IndexError")
            /\ UNCHANGED <<coeffs_opt, cur_pos, writes, view_i>>
       ELSE /\ coeffs_opt' = Zeros(TensorWidth(num_imgs))
            /\ writes' = [c \in 0 .. TensorWidth(num_imgs) - 1 |-> 0]
            /\ cur_pos' = IdDim
            /\ view_i' = 0
            /\ pc' = "pack_id"
            /\ err' = err
    /\ UNCHANGED <<cfg_vars, num_bundles, init_coeffs, num_imgs,
                   opt_setting_dict_list, initial_lr_list, opt_vars, obs_vars>>

\* line 73
PackId ==
    /\ pc = "pack_id"
    /\ LET v == init_coeffs[view_i + 1]["id"]
       IN  IF Broadcastable(Len(v), IdDim)
           THEN /\ coeffs_opt' = SliceAdd(coeffs_opt, IdDim, v)
                /\ pc' = "pack_exp"
                /\ err' = err
           ELSE /\ Raise("RuntimeError")
                /\ UNCHANGED coeffs_opt
    /\ UNCHANGED <<cfg_vars, num_bundles, init_coeffs, num_imgs, cur_pos, view_i,
                   writes, opt_setting_dict_list, initial_lr_list, opt_vars, obs_vars>>

\* cursor after a sub-block of width n was written at pos
Advance(pos, n) == pos + n

\* lines 74-81: coeffs_opt[:, cur_pos:cur_pos+n] = dict[b]; cur_pos += n
PackBlock(b, here, next) ==
    /\ pc = here
    /\ LET v == init_coeffs[view_i + 1][b]
           n == BlockDim(b)
           \* a slice is clipped to the tensor's width
           have == IF cur_pos + n <= Width(coeffs_opt) THEN n
                   ELSE IF cur_pos < Width(coeffs_opt) THEN Width(coeffs_opt) - cur_pos
                   ELSE 0
       IN  IF Broadcastable(Len(v), have)
           THEN /\ coeffs_opt' = SliceAssign(coeffs_opt, cur_pos, n, v)
                /\ writes' = Touch(writes, cur_pos, n)
                /\ cur_pos' = Advance(cur_pos, n)
                /\ pc' = next
                /\ err' = err
           ELSE /\ Raise("RuntimeError")
                /\ UNCHANGED <<coeffs_opt, writes, cur_pos>>
    /\ UNCHANGED <<cfg_vars, num_bundles, init_coeffs, num_imgs, view_i,
                   opt_setting_dict_list, initial_lr_list, opt_vars, obs_vars>>

PackExp == PackBlock("exp", "pack_exp", "pack_angle")
PackAngle == PackBlock("angle", "pack_angle", "pack_gamma")
PackGamma == PackBlock("gamma", "pack_gamma", "pack_trans")
PackTrans == PackBlock("trans", "pack_trans", "next_view")

\* line 70: the next turn of `for i in range(num_imgs)`
NextView ==
    /\ pc = "next_view"
    /\ view_i' = view_i + 1
    /\ pc' = IF view_i + 1 < num_imgs THEN "pack_id" ELSE "mean"
    /\ UNCHANGED <<err, cfg_vars, num_bundles, init_coeffs, num_imgs, coeffs_opt,
                   cur_pos, writes, opt_setting_dict_list, initial_lr_list, opt_vars,
                   obs_vars>>

\* line 82
MeanId ==
    /\ pc = "mean"
    /\ coeffs_opt' = SliceDiv(coeffs_opt, IdDim, num_imgs)
    /\ pc' = "groups"
    /\ UNCHANGED <<err, cfg_vars, num_bundles, init_coeffs, num_imgs, cur_pos, view_i,
                   writes, opt_setting_dict_list, initial_lr_list, opt_vars, obs_vars>>

\* a parameter group: what "params" refers to and its "lr"
Group(ref, lr) == [params |-> ref, lr |-> lr]

\* lines 93-123.  The two shared groups are listed; the first turn of the loop
\* of line 104 reads self.coeffs_opt_dict, an attribute the class never
\* assigns (line 72 binds a local of that name), so it raises before any
\* per-view group is appended and before line 125 builds the optimizer.
BuildGroups ==
    /\ pc = "groups"
    /\ opt_setting_dict_list' =
            <<Group(<<"latents_w_opt">>, TexLr),
              Group(<<"coeffs_opt", 0, IdDim>>, InitialLr)>>
    /\ initial_lr_list' = <<TexLr, InitialLr>>
    /\ Raise("AttributeError")
    /\ UNCHANGED <<cfg_vars, num_bundles, init_coeffs, num_imgs, coeffs_opt, cur_pos,
                   view_i, writes, opt_vars, obs_vars>>

NextInit ==
    \/ ReadArgs
    \/ Alloc
    \/ PackId
    \/ PackExp
    \/ PackAngle
    \/ PackGamma
    \/ PackTrans
    \/ NextView
    \/ MeanId
    \/ BuildGroups

SpecInit == InitCtor /\ [][NextInit]_vars

----------------------------------------------------------------------------
(* Fixed-point arithmetic of update_learning_rate, lines 133-135 *)

One == 1000
Pi == 3142

Min(a, b) == IF a <= b THEN a ELSE b

\* cos on [0, pi/2], Taylor series
CosSmall(y) ==
    LET y2 == (y * y) \div One
        y4 == (y2 * y2) \div One
        y6 == (y4 * y2) \div One
        y8 == (y6 * y2) \div One
    IN  One - (y2 \div 2) + (y4 \div 24) - (y6 \div 720) + (y8 \div 40320)

\* np.cos: even, of period 2*pi, cos(z) = -cos(pi - z) past pi/2
Cos(z) ==
    LET a == IF z < 0 THEN -z ELSE z
        m == a % (2 * Pi)
        f == IF m > Pi THEN 2 * Pi - m ELSE m
    IN  IF 2 * f > Pi THEN -CosSmall(Pi - f) ELSE CosSmall(f)

\* line 133-134: min(1.0, (1.0 - float(step) / total) / rampdown), rampdown # 0
LinRampNoClamp(step, total, r) ==
    LET t == (step * One) \div total
    IN  ((One - t) * r[2]) \div r[1]

LinRamp(step, total, r) ==
    LET t == (step * One) \div total
    IN  Min(One, ((One - t) * r[2]) \div r[1])

\* line 135: 0.5 - 0.5 * np.cos(lr_ramp * np.pi)
Ramp(step, total, r) ==
    LET lin == LinRamp(step, total, r)
        half == One \div 2
    IN  half - (half * Cos((lin * Pi) \div One)) \div One

\* lines 100-102 and 119-123 for n views
RECURSIVE InitialLrList(_)
InitialLrList(n) ==
    IF n = 0 THEN <<TexLr, InitialLr>>
    ELSE InitialLrList(n - 1) \o <<InitialLr, PoseLr, TexLr, PoseLr>>

----------------------------------------------------------------------------
(* Loss terms, lines 155-203 *)

\* side of the square images, pred_face_img.shape[0]
ImgSize == 8

RECURSIVE SumSq(_, _, _)
SumSq(a, b, k) ==
    IF k = 0 THEN 0 ELSE (a[k] - b[k]) * (a[k] - b[k]) + SumSq(a, b, k - 1)

\* landmark_loss(pred_lm, gt_lm), line 201
LandmarkLoss(pred, gt) == SumSq(pred, gt, Len(gt))

\* what each loss function returns in the current state; the terms other than
\* the landmark term are fixed positive numbers
TermLoss(t) ==
    CASE t = "feat" -> 2
      [] t = "color" -> 3
      [] t = "vgg" -> 5
      [] t = "reg_id" -> 7
      [] t = "reg_exp" -> 11
      [] t = "reg_gamma" -> 13
      [] t = "reg_latent" -> 17
      [] t = "lm" -> LandmarkLoss(pred_lm, gt_lm)

\* one gated term: `if w > 0: loss_all += w * loss; loss_names.append(name)`
AddTerm(acc, t) ==
    IF w[t] > 0
    THEN [all |-> acc.all + w[t] * TermLoss(t),
          names |-> Append(acc.names, t),
          set |-> acc.set \cup {t}]
    ELSE acc

\* lines 188-193: the three regression terms behind one condition
AddRegTerms(acc) ==
    IF w["reg_id"] > 0 \/ w["reg_exp"] > 0 \/ w["reg_gamma"] > 0
    THEN [all |-> acc.all + w["reg_id"] * TermLoss("reg_id")
                          + w["reg_exp"] * TermLoss("reg_exp")
                          + w["reg_gamma"] * TermLoss("reg_gamma"),
          names |-> acc.names \o <<"reg_id", "reg_exp", "reg_gamma">>,
          set |-> acc.set \cup {"reg_id", "reg_exp", "reg_gamma"}]
    ELSE acc

\* the whole of compute_losses, in the order of the source
Losses ==
    LET a0 == [all |-> 0, names |-> <<"all">>, set |-> {}]
        a1 == AddTerm(a0, "feat")
        a2 == AddTerm(a1, "color")
        a3 == AddTerm(a2, "vgg")
        a4 == AddRegTerms(a3)
        a5 == AddTerm(a4, "reg_latent")
    IN  AddTerm(a5, "lm")

Phase(name) == trace' = Append(trace, name)

ComputeLosses ==
    /\ pc = "compute_losses"
    /\ loss_names' = Losses.names
    /\ loss_all' = Losses.all
    /\ loss_attr' =
          [t \in (DOMAIN loss_attr) \cup Losses.set \cup {"all"} |->
              IF t = "all" THEN Losses.all
              ELSE IF t \in Losses.set THEN TermLoss(t)
              ELSE loss_attr[t]]
    /\ loss_hist' = Append(loss_hist, Losses.all)
    /\ Phase("compute_losses")
    /\ pc' = "zero_grad"
    /\ UNCHANGED <<err, cfg_vars, init_vars, now_step, loop_k, param_lr, lr_ramp,
                   sched_step, gt_lm, pred_lm, shares_memory, n_opt_steps, n_finalize,
                   log_steps, vis_steps, ramp_hist, gt_lm_init>>

\* gather_loss_log_str, lines 237-244: the logged names and values
gather_loss_log_str ==
    [name \in {loss_names[j] : j \in 1 .. Len(loss_names)} |-> loss_attr[name]]

Weights == [Terms -> -1 .. MaxWeight]

GtLmChoices == {<<1 + s, 5>> : s \in 0 .. MaxSeed}

\* predicted landmarks after k optimizer steps (face-model output)
PredictedLm(k) == <<2 + (k % 3), 4>>

InitLoss ==
    /\ pc = "compute_losses"
    /\ err = "none"
    /\ w \in Weights
    /\ total_step = DefaultCfg.total_step
    /\ print_freq = DefaultCfg.print_freq
    /\ visual_freq = DefaultCfg.visual_freq
    /\ lr_rampdown_length = DefaultCfg.lr_rampdown_length
    /\ IdleInit
    /\ now_step = 0
    /\ loop_k = 0
    /\ param_lr = <<>>
    /\ lr_ramp = 0
    /\ sched_step = 0
    /\ loss_names = <<>>
    /\ loss_all = 0
    /\ loss_attr = <<>>
    /\ gt_lm \in GtLmChoices
    /\ pred_lm = PredictedLm(0)
    /\ shares_memory = FALSE
    /\ trace = <<>>
    /\ n_opt_steps = 0
    /\ n_finalize = 0
    /\ log_steps = <<>>
    /\ vis_steps = <<>>
    /\ ramp_hist = <<>>
    /\ loss_hist = <<>>
    /\ gt_lm_init = gt_lm

NextLoss == ComputeLosses

SpecLoss == InitLoss /\ [][NextLoss]_vars

\* what a term adds to loss_all when every term is gated by its own weight
OwnGate(t) == IF w[t] > 0 THEN w[t] * TermLoss(t) ELSE 0

\* C1 as claimed: after compute_losses every term is gated by its own weight:
\* with weight <= 0 it is not among the logged names and adds exactly 0 to
\* loss_all, with weight > 0 it is among the logged names.
C1_Claim ==
    pc = "zero_grad" =>
        /\ \A t \in Terms : (t \in DOMAIN gather_loss_log_str) <=> (w[t] > 0)
        /\ loss_all = OwnGate("feat") + OwnGate("color") + OwnGate("vgg")
                        + OwnGate("reg_id") + OwnGate("reg_exp") + OwnGate("reg_gamma")
                        + OwnGate("reg_latent") + OwnGate("lm")

----------------------------------------------------------------------------
(* MVFitter.iterate and MVFitter.optimize_parameters, lines 205-212, 246-265 *)

RampdownLengths == {<<0, 1>>, <<1, 4>>, <<1, 2>>, <<1, 1>>, <<2, 1>>}

\* The object iterate() is called on: the attributes as lines 35-127 leave
\* them (kwargs stored as given, now_step 0, one base rate per group), with
\* the attributes the methods read all present.
InitIterate ==
    /\ pc = "loop"
    /\ err = "none"
    /\ \E wl \in 0 .. MaxWeight : w = [NoWeights EXCEPT !["lm"] = wl]
    /\ total_step \in -1 .. MaxTotalStep
    /\ print_freq \in -1 .. MaxFreq
    /\ visual_freq \in -1 .. MaxFreq
    /\ lr_rampdown_length \in RampdownLengths
    /\ num_imgs \in 1 .. MaxViews
    /\ num_bundles = num_imgs
    /\ init_coeffs = <<>>
    /\ coeffs_opt = <<>>
    /\ cur_pos = 0
    /\ view_i = 0
    /\ writes = <<>>
    /\ opt_setting_dict_list = <<>>
    /\ initial_lr_list = InitialLrList(num_imgs)
    /\ now_step = 0
    /\ loop_k = 0
    /\ param_lr = initial_lr_list
    /\ lr_ramp = 0
    /\ sched_step = 0
    /\ loss_names = <<>>
    /\ loss_all = 0
    /\ loss_attr = <<>>
    /\ gt_lm \in GtLmChoices
    /\ pred_lm = <<>>
    /\ shares_memory \in BOOLEAN
    /\ trace = <<>>
    /\ n_opt_steps = 0
    /\ n_finalize = 0
    /\ log_steps = <<>>
    /\ vis_steps = <<>>
    /\ ramp_hist = <<>>
    /\ loss_hist = <<>>
    /\ gt_lm_init = gt_lm

\* a % b of Python for b # 0: the result has the sign of b
PyMod(a, b) == IF b > 0 THEN a % b ELSE -((-a) % (-b))

RangeOffByOne(k, n) == k <= n

\* `for _ in range(n)` has a k-th turn (k counted from 0)
RangeHasNext(k, n) == k < n

\* line 247
LoopHead ==
    /\ pc = "loop"
    /\ IF RangeHasNext(loop_k, total_step)
       THEN /\ loop_k' = loop_k + 1
            /\ trace' = <<>>
            /\ pc' = "update_learning_rate"
       ELSE /\ pc' = "finalize"
            /\ UNCHANGED <<loop_k, trace>>
    /\ UNCHANGED <<err, cfg_vars, init_vars, now_step, param_lr, lr_ramp, sched_step,
                   loss_names, loss_all, loss_attr, gt_lm, pred_lm, shares_memory,
                   n_opt_steps, n_finalize, log_steps, vis_steps, ramp_hist, loss_hist,
                   gt_lm_init>>

\* lines 132-138
UpdateLearningRate ==
    /\ pc = "update_learning_rate"
    /\ IF lr_rampdown_length[1] = 0
       THEN /\ Raise("ZeroDivisionError")
            /\ UNCHANGED <<lr_ramp, param_lr, sched_step, ramp_hist, trace>>
       ELSE /\ lr_ramp' = Ramp(now_step, total_step, lr_rampdown_length)
            /\ param_lr' = [i \in 1 .. Len(param_lr) |-> initial_lr_list[i] * lr_ramp']
            /\ sched_step' = now_step
            /\ ramp_hist' = Append(ramp_hist, lr_ramp')
            /\ Phase("update_learning_rate")
            /\ pc' = "forward"
            /\ err' = err
    /\ UNCHANGED <<cfg_vars, init_vars, now_step, loop_k, loss_names, loss_all,
                   loss_attr, gt_lm, pred_lm, shares_memory, n_opt_steps, n_finalize,
                   log_steps, vis_steps, loss_hist, gt_lm_init>>

\* lines 140-153: the predicted state is recomputed from the parameters
Forward ==
    /\ pc = "forward"
    /\ pred_lm' = PredictedLm(n_opt_steps)
    /\ Phase("forward")
    /\ pc' = "compute_losses"
    /\ UNCHANGED <<err, cfg_vars, init_vars, now_step, loop_k, param_lr, lr_ramp,
                   sched_step, loss_names, loss_all, loss_attr, gt_lm, shares_memory,
                   n_opt_steps, n_finalize, log_steps, vis_steps, ramp_hist, loss_hist,
                   gt_lm_init>>

\* line 209
ZeroGrad ==
    /\ pc = "zero_grad"
    /\ Phase("zero_grad")
    /\ pc' = "backward"
    /\ UNCHANGED <<err, cfg_vars, init_vars, opt_vars, n_opt_steps, n_finalize,
                   log_steps, vis_steps, ramp_hist, loss_hist, gt_lm_init>>

\* line 210: loss_all is still the float of line 158 when no term was added,
\* and a float has no backward()
Backward ==
    /\ pc = "backward"
    /\ IF Len(loss_names) = 1
       THEN /\ Raise("AttributeError")
            /\ UNCHANGED trace
       ELSE /\ Phase("backward")
            /\ pc' = "step"
            /\ err' = err
    /\ UNCHANGED <<cfg_vars, init_vars, opt_vars, n_opt_steps, n_finalize,
                   log_steps, vis_steps, ramp_hist, loss_hist, gt_lm_init>>

\* line 211
OptimizerStep ==
    /\ pc = "step"
    /\ n_opt_steps' = n_opt_steps + 1
    /\ Phase("step")
    /\ pc' = "increment"
    /\ UNCHANGED <<err, cfg_vars, init_vars, opt_vars, n_finalize, log_steps,
                   vis_steps, ramp_hist, loss_hist, gt_lm_init>>

\* line 212
IncrementStep ==
    /\ pc = "increment"
    /\ now_step' = now_step + 1
    /\ Phase("increment")
    /\ pc' = "print_log"
    /\ UNCHANGED <<err, cfg_vars, init_vars, loop_k, param_lr, lr_ramp, sched_step,
                   loss_names, loss_all, loss_attr, gt_lm, pred_lm, shares_memory,
                   n_opt_steps, n_finalize, log_steps, vis_steps, ramp_hist, loss_hist,
                   gt_lm_init>>

EmitWithoutFinal(n, freq, total) == PyMod(n, freq) = 0

\* the condition of lines 251 and 258, freq # 0
ShouldEmit(n, freq, total) == PyMod(n, freq) = 0 \/ n = total

\* lines 251-256
PrintLog ==
    /\ pc = "print_log"
    /\ IF print_freq = 0
       THEN /\ Raise("ZeroDivisionError")
            /\ UNCHANGED <<log_steps, trace>>
       ELSE /\ log_steps' = IF ShouldEmit(now_step, print_freq, total_step)
                            THEN Append(log_steps, now_step)
                            ELSE log_steps
            /\ Phase("print_log")
            /\ pc' = "visual"
            /\ err' = err
    /\ UNCHANGED <<cfg_vars, init_vars, opt_vars, n_opt_steps, n_finalize, vis_steps,
                   ramp_hist, loss_hist, gt_lm_init>>

\* lines 228-229: lm[..., 1] = shape[0] - 1 - lm[..., 1], on the numpy array
FlipY(lm) == [k \in 1 .. Len(lm) |-> ImgSize - 1 - lm[k]]

\* gather_visual_img, lines 214-235: the arrays of lines 219 and 225 are
\* flipped in place; on a CPU run they are the storage of self.gt_lm and
\* self.pred_lm
GatherVisualImg ==
    /\ gt_lm' = IF shares_memory THEN FlipY(gt_lm) ELSE gt_lm
    /\ pred_lm' = IF shares_memory THEN FlipY(pred_lm) ELSE pred_lm

\* lines 258-260
VisualSnapshot ==
    /\ pc = "visual"
    /\ IF visual_freq = 0
       THEN /\ Raise("ZeroDivisionError")
            /\ UNCHANGED <<vis_steps, trace, gt_lm, pred_lm>>
       ELSE /\ IF ShouldEmit(now_step, visual_freq, total_step)
               THEN /\ GatherVisualImg
                    /\ vis_steps' = Append(vis_steps, now_step)
               ELSE UNCHANGED <<gt_lm, pred_lm, vis_steps>>
            /\ Phase("visual")
            /\ pc' = "loop"
            /\ err' = err
    /\ UNCHANGED <<cfg_vars, init_vars, now_step, loop_k, param_lr, lr_ramp,
                   sched_step, loss_names, loss_all, loss_attr, shares_memory,
                   n_opt_steps, n_finalize, log_steps, ramp_hist, loss_hist, gt_lm_init>>

\* lines 262-265
Finalize ==
    /\ pc = "finalize"
    /\ n_finalize' = n_finalize + 1
    /\ pc' = "done"
    /\ UNCHANGED <<err, cfg_vars, init_vars, opt_vars, trace, n_opt_steps, log_steps,
                   vis_steps, ramp_hist, loss_hist, gt_lm_init>>

NextIterate ==
    \/ LoopHead
    \/ UpdateLearningRate
    \/ Forward
    \/ ComputeLosses
    \/ ZeroGrad
    \/ Backward
    \/ OptimizerStep
    \/ IncrementStep
    \/ PrintLog
    \/ VisualSnapshot
    \/ Finalize

SpecIterate == InitIterate /\ [][NextIterate]_vars

----------------------------------------------------------------------------
(* Claims about the optimisation loop, checked under SpecIterate *)

\* a schedule iterate() runs to its end
WellFormedSchedule ==
    /\ total_step >= 1
    /\ print_freq >= 1
    /\ visual_freq >= 1
    /\ lr_rampdown_length[1] > 0

SeqRange(q) == {q[j] : j \in 1 .. Len(q)}

IsPrefix(p, q) == Len(p) <= Len(q) /\ \A j \in 1 .. Len(p) : p[j] = q[j]

IterationOrder ==
    <<"update_learning_rate", "forward", "compute_losses", "zero_grad", "backward",
      "step", "increment", "print_log", "visual">>

LogDecided == IF pc = "print_log" THEN now_step - 1 ELSE now_step
VisDecided == IF pc \in {"print_log", "visual"} THEN now_step - 1 ELSE now_step

Increasing(q) == \A j \in 1 .. Len(q) - 1 : q[j] < q[j + 1]

RampShape ==
    /\ \A k \in 1 .. Len(ramp_hist) - 1 : ramp_hist[k + 1] <= ramp_hist[k]
    /\ \A k \in 1 .. Len(ramp_hist) : ramp_hist[k] \in 0 .. One
    /\ Len(ramp_hist) >= 1 => ramp_hist[1] = One
    /\ lr_rampdown_length[1] # 0 =>
          /\ \A k \in 1 .. Len(ramp_hist) :
                LinRamp(k - 1, total_step, lr_rampdown_length) \in 1 .. One
          /\ LinRamp(total_step, total_step, lr_rampdown_length) = 0
          /\ Ramp(total_step, total_step, lr_rampdown_length) = 0

\* C9 as claimed: for every total_step >= 1 and every rampdown length the ramp
\* is non-increasing over the steps used, 1 at step 0 and 0 only at
\* step = total_step.
C9_Claim == WellFormedSchedule => RampShape

\* C9 amended: the same for a rampdown length r with 0 < r <= 1.
C9_RampSchedule ==
    (total_step >= 1 /\ lr_rampdown_length[1] > 0
        /\ lr_rampdown_length[1] <= lr_rampdown_length[2]) => RampShape

C9_Witness ==
    /\ lr_rampdown_length = <<1, 1>>
    /\ total_step = 4
    /\ Len(ramp_hist) = 4
    /\ ramp_hist[1] = One
    /\ ramp_hist[4] < ramp_hist[3]
    /\ ramp_hist[4] > 0

----------------------------------------------------------------------------
(* Claims about the constructor, checked under SpecInit *)

CtorRunning ==
    {"args", "alloc", "pack_id", "pack_exp", "pack_angle", "pack_gamma",
     "pack_trans", "next_view", "mean", "groups"}

Packing == {"pack_id", "pack_exp", "pack_angle", "pack_gamma", "pack_trans", "next_view"}

\* the packing loop has ended (line 82 reached or passed)
Packed == pc \in {"mean", "groups"} \/ (pc = "failed" /\ err = "AttributeError")

ViewBlocks == {"exp", "angle", "gamma", "trans"}

ValidWidths ==
    \A j \in 1 .. Len(init_coeffs) :
        \A b \in ViewBlocks \cup {"id"} : Len(init_coeffs[j][b]) = BlockDim(b)

\* offset of sub-block b inside a view's 78 columns
OffsetIn(b) ==
    CASE b = "exp" -> 0
      [] b = "angle" -> 45
      [] b = "gamma" -> 48
      [] b = "trans" -> 75

\* view i's sub-block b sits unchanged at its offset
SliceHolds(i, b) ==
    \A k \in 0 .. Len(init_coeffs[i + 1][b]) - 1 :
        coeffs_opt[532 + 78 * i + OffsetIn(b) + k] =
            [n |-> init_coeffs[i + 1][b][k + 1], d |-> 1]

RECURSIVE IdSum(_, _)
IdSum(j, c) == IF j = 0 THEN 0 ELSE init_coeffs[j]["id"][c + 1] + IdSum(j - 1, c)

\* C2: for valid per-view coefficient sets, every view already packed keeps
\* its exp, angle, gamma and trans values at 532+78*i, +45, +48, +75 while
\* later views are written, and once the loop has ended the block [0, 532)
\* is the sum of the per-view identity blocks divided by the number of views.
C2_PackingRoundTrip ==
    (ValidWidths /\ (pc \in Packing \/ Packed)) =>
        /\ \A i \in 0 .. view_i - 1 : \A b \in ViewBlocks : SliceHolds(i, b)
        /\ (pc = "groups" \/ pc = "failed") =>
              /\ view_i = num_imgs
              /\ \A c \in 0 .. 531 :
                    /\ coeffs_opt[c].d # 0
                    /\ coeffs_opt[c].n * num_imgs = coeffs_opt[c].d * IdSum(num_imgs, c)

C2_Witness ==
    /\ pc = "groups"
    /\ num_imgs = 2
    /\ ValidWidths
    /\ coeffs_opt[0].d = 2
    /\ init_coeffs[1]["exp"] # init_coeffs[2]["exp"]

\* where the cursor stands at each position of the packing loop
CursorAt(p, i) ==
    532 + 78 * i +
        CASE p = "pack_id" -> 0
          [] p = "pack_exp" -> 0
          [] p = "pack_angle" -> 45
          [] p = "pack_gamma" -> 48
          [] p = "pack_trans" -> 75
          [] p = "next_view" -> 78

\* C3: for V >= 1 views the packed tensor is 532 + 78*V wide; the cursor starts
\* at 532, stands after every sub-block written so far (so each write moved it
\* forward), never passes the width, and is 532 + 78*V when the loop ends;
\* every column from 532 up to the cursor was written once, none after it.
C3_LayoutWidth ==
    (pc \in Packing \/ Packed) =>
        /\ num_imgs >= 1
        /\ Width(coeffs_opt) = 532 + 78 * num_imgs
        /\ cur_pos >= 532
        /\ cur_pos <= Width(coeffs_opt)
        /\ pc \in Packing => cur_pos = CursorAt(pc, view_i)
        /\ Packed => cur_pos = 532 + 78 * num_imgs
        /\ \A c \in 532 .. Width(coeffs_opt) - 1 :
              writes[c] = IF c < cur_pos THEN 1 ELSE 0

C3_Witness ==
    /\ pc = "mean"
    /\ num_imgs = 2
    /\ cur_pos = 688
    /\ writes[687] = 1

ViewRef(i, b) == <<"coeffs_opt", 532 + 78 * i + OffsetIn(b), BlockDim(b)>>

\* C4 as claimed: on valid inputs the constructor ends without error, holding
\* the groups w, identity and, per view, that view's own exp, angle, gamma and
\* trans slices (2 + 4V groups) with their base rates.
C4_Claim ==
    (ValidWidths /\ Len(init_coeffs) >= 1 /\ num_bundles = Len(init_coeffs)
        /\ pc \notin CtorRunning) =>
        /\ err = "none"
        /\ Len(opt_setting_dict_list) = 2 + 4 * num_imgs
        /\ Len(initial_lr_list) = 2 + 4 * num_imgs
        /\ \A i \in 0 .. num_imgs - 1 :
              /\ opt_setting_dict_list[3 + 4 * i].params = ViewRef(i, "exp")
              /\ opt_setting_dict_list[4 + 4 * i].params = ViewRef(i, "angle")
              /\ opt_setting_dict_list[5 + 4 * i].params = ViewRef(i, "gamma")
              /\ opt_setting_dict_list[6 + 4 * i].params = ViewRef(i, "trans")

BadConfiguration == Malformed \/ num_bundles # Len(init_coeffs)

\* C7 as claimed: a malformed configuration, or a number of supervision
\* bundles different from the number of coefficient sets, stops the
\* constructor while it reads its arguments; nothing is allocated or packed
\* and no optimizer step runs.
C7_Claim ==
    BadConfiguration =>
        /\ pc \notin Packing \cup {"mean", "groups"}
        /\ n_opt_steps = 0
        /\ now_step = 0

BadWidth ==
    \E j \in 1 .. Len(init_coeffs) :
        \E b \in ViewBlocks : Len(init_coeffs[j][b]) # BlockDim(b)

\* C10 as claimed: when a decoded exp, angle, gamma or trans sub-block has a
\* width other than 45, 3, 27, 3 (width 1 included) the constructor fails on
\* it: the packing loop never ends with that sub-block written into the
\* tensor.  (The error torch raises for a width it cannot broadcast is taken
\* for the shape error the claim names.)
C10_Claim == BadWidth => ~Packed

====
